---- MODULE Spec2Model ----
(***************************************************************************)
(* A model of bin/junit_to_html.py: the JUnit XML -> HTML report           *)
(* converter (class JUnitToHTMLConverter).                                 *)
(*                                                                         *)
(* Representation.                                                         *)
(*   - A Python str is a sequence of one-character strings, so that the    *)
(*     character-level functions (escape_html, the os.path functions,      *)
(*     int(), float(), the re.sub rewrites) are computed character by      *)
(*     character as the code computes them.                                *)
(*   - Python's None is the one-element sequence None; a child element     *)
(*     that is not there (Element.find(...) is None) is NoChild.           *)
(*   - A Python float is a record [k, ms]: k = "fin" with the value in     *)
(*     thousandths of a second, k = "nan", or k = "inf" with ms the sign.  *)
(*   - A raised exception is a record [type, msg, cause]; NoExc is "no     *)
(*     exception".                                                         *)
(***************************************************************************)
EXTENDS Integers, Sequences, FiniteSets, TLC

VARIABLES
    entry,         \* which public method the caller invoked: "convert" | "parse"
    input_file,    \* argument input_file / xml_file
    output_arg,    \* argument output_file of convert (None when not given)
    fs_input,      \* what the file system holds at input_file
    doc,           \* the content of the input file, as an XML tree
    pc,            \* position inside convert / parse_junit_xml / generate_html
    output_file,   \* convert's local output_file after the resolution
    test_data,     \* the dictionary returned by parse_junit_xml
    html_content,  \* generate_html's local html_content
    disk,          \* the file at the resolved output path
    exc,           \* the exception that left the entry method
    ret,           \* the value the entry method returned
    stdout,        \* what was printed
    ran,           \* the steps that have run so far
    call_arg,      \* the argument of a call of one of the helper methods
    call_tmp,      \* the helper's local variable
    call_ret,      \* what the helper returned
    call_pc,       \* position inside the helper
    testCases,     \* the .test-case blocks of the report opened in a browser
    page_pc,       \* whether the DOMContentLoaded handler has run
    event,         \* the last event the page handled
    before         \* testCases as the last event found them

ConvertVars == <<entry, input_file, output_arg, fs_input, doc, pc, output_file,
                 test_data, html_content, disk, exc, ret, stdout, ran>>
CallVars == <<call_arg, call_tmp, call_ret, call_pc>>
PageVars == <<testCases, page_pc, event, before>>
vars == <<ConvertVars, CallVars, PageVars>>

\* no report is open in a browser
NoEvent == [type |-> "none", index |-> 0]
NoPage == testCases = <<>> /\ page_pc = "none" /\ event = NoEvent /\ before = <<>>

-----------------------------------------------------------------------------
(* Python values *)

None == <<"<None>">>
NoChild == <<"<NoChild>">>

\* bool(x) for a str or None
Truthy(x) == x # None /\ x # <<>>

\* str.isspace characters (the ones the model's alphabets use)
Whitespace == {" ", "\n", "\t"}

Digit == {"0", "1", "2", "3", "4", "5", "6", "7", "8", "9"}

DigitVal(c) ==
    CASE c = "0" -> 0 [] c = "1" -> 1 [] c = "2" -> 2 [] c = "3" -> 3
      [] c = "4" -> 4 [] c = "5" -> 5 [] c = "6" -> 6 [] c = "7" -> 7
      [] c = "8" -> 8 [] c = "9" -> 9

Max(S) == CHOOSE x \in S : \A y \in S : y <= x
Min(S) == CHOOSE x \in S : \A y \in S : x <= y

\* str.replace(old, new) for a one-character old
RECURSIVE replace(_, _, _)
replace(s, old, new) ==
    IF s = <<>> THEN <<>>
    ELSE (IF Head(s) = old THEN new ELSE <<Head(s)>>) \o replace(Tail(s), old, new)

\* str.lstrip(), str.rstrip(), str.strip()
lstrip(s) ==
    LET I == {i \in 1..Len(s) : s[i] \notin Whitespace}
    IN  IF I = {} THEN <<>> ELSE SubSeq(s, Min(I), Len(s))

rstrip(s) ==
    LET I == {i \in 0..Len(s) : \A k \in (i + 1)..Len(s) : s[k] \in Whitespace}
    IN  SubSeq(s, 1, Min(I))

strip(s) == rstrip(lstrip(s))

\* str.rfind(c) + 1: the 1-based index of the last c, 0 when there is none
rfind(s, c) ==
    LET I == {i \in 1..Len(s) : s[i] = c}
    IN  IF I = {} THEN 0 ELSE Max(I)

\* a raised exception; cause is the type of the exception it was made from
Exc(type, msg, cause) == [type |-> type, msg |-> msg, cause |-> cause]
NoExc == Exc("", "", "")

\* the result of a call: a value, or a raised exception
Return(v) == [ok |-> TRUE, val |-> v, exc |-> NoExc]
Raise(e) == [ok |-> FALSE, val |-> None, exc |-> e]

\* two steps that each yield a sequence, one after the other: the first raise
\* ends both
Then(first, second) ==
    IF ~first.ok THEN first
    ELSE IF ~second.ok THEN second
    ELSE Return(first.val \o second.val)

\* the value of a call as a one-element sequence
Single(r) == IF r.ok THEN Return(<<r.val>>) ELSE r

-----------------------------------------------------------------------------
(* int(str) and float(str) *)

UnsignedDigits(s) == s # <<>> /\ \A i \in 1..Len(s) : s[i] \in Digit

RECURSIVE DecValue(_)
DecValue(s) ==
    IF s = <<>> THEN 0 ELSE 10 * DecValue(SubSeq(s, 1, Len(s) - 1)) + DigitVal(s[Len(s)])

Unsigned(s) == IF s # <<>> /\ s[1] \in {"+", "-"} THEN Tail(s) ELSE s
Sign(s) == IF s # <<>> /\ s[1] = "-" THEN -1 ELSE 1

\* int(s) for a str s: surrounding whitespace, an optional sign, decimal digits
IsIntLiteral(s) == UnsignedDigits(Unsigned(strip(s)))

int(s) ==
    IF IsIntLiteral(s)
    THEN Return(Sign(strip(s)) * DecValue(Unsigned(strip(s))))
    ELSE Raise(Exc("ValueError", "invalid literal for int()", ""))

Fin(ms) == [k |-> "fin", ms |-> ms]
NaN == [k |-> "nan", ms |-> 0]
Inf(sign) == [k |-> "inf", ms |-> sign]

\* the fraction digits of a decimal literal, in thousandths
Thousandths(f) ==
    LET p == f \o <<"0", "0", "0">> IN DecValue(SubSeq(p, 1, 3))

\* float(s) for a str s: surrounding whitespace, an optional sign, then nan, inf
\* or a decimal literal d+, d+., d+.d+, .d+ (at most three fraction digits here)
IsDecimalLiteral(u) ==
    LET dot == rfind(u, ".")
        ip == IF dot = 0 THEN u ELSE SubSeq(u, 1, dot - 1)
        fp == IF dot = 0 THEN <<>> ELSE SubSeq(u, dot + 1, Len(u))
    IN  /\ \A i \in 1..Len(ip) : ip[i] \in Digit
        /\ \A i \in 1..Len(fp) : fp[i] \in Digit
        /\ ip \o fp # <<>>
        /\ Len(fp) <= 3

DecimalValue(u) ==
    LET dot == rfind(u, ".")
        ip == IF dot = 0 THEN u ELSE SubSeq(u, 1, dot - 1)
        fp == IF dot = 0 THEN <<>> ELSE SubSeq(u, dot + 1, Len(u))
    IN  1000 * DecValue(ip) + Thousandths(fp)

IsFloatLiteral(s) ==
    LET u == Unsigned(strip(s))
    IN  u \in {<<"n", "a", "n">>, <<"i", "n", "f">>} \/ IsDecimalLiteral(u)

float(s) ==
    LET t == strip(s)
        u == Unsigned(t)
    IN  IF u = <<"n", "a", "n">> THEN Return(NaN)
        ELSE IF u = <<"i", "n", "f">> THEN Return(Inf(Sign(t)))
        ELSE IF IsDecimalLiteral(u) THEN Return(Fin(Sign(t) * DecimalValue(u)))
        ELSE Raise(Exc("ValueError", "could not convert string to float", ""))

-----------------------------------------------------------------------------
(* os.path (posixpath) *)

\* os.path.dirname
dirname(p) ==
    LET i == rfind(p, "/")
        head == SubSeq(p, 1, i)
        I == {k \in 1..Len(head) : head[k] # "/"}
    IN  IF I = {} THEN head ELSE SubSeq(head, 1, Max(I))

\* os.path.basename
basename(p) == SubSeq(p, rfind(p, "/") + 1, Len(p))

\* os.path.splitext: <<root, ext>>; leading dots of the last component are not
\* an extension
splitext(p) ==
    LET sepIndex == rfind(p, "/")
        dotIndex == rfind(p, ".")
    IN  IF dotIndex > sepIndex /\ \E k \in (sepIndex + 1)..(dotIndex - 1) : p[k] # "."
        THEN <<SubSeq(p, 1, dotIndex - 1), SubSeq(p, dotIndex, Len(p))>>
        ELSE <<p, <<>> >>

\* os.path.join(a, b)
join(a, b) ==
    IF b # <<>> /\ b[1] = "/" THEN b
    ELSE IF a = <<>> \/ a[Len(a)] = "/" THEN a \o b
    ELSE a \o <<"/">> \o b

-----------------------------------------------------------------------------
(* The regular expressions of clean_test_name *)

\* a str literal as a sequence of characters
S_Unknown_Test == <<"U", "n", "k", "n", "o", "w", "n", " ", "T", "e", "s", "t">>
S_Test_Case == <<"T", "e", "s", "t", " ", "C", "a", "s", "e">>
S_verify == <<"v", "e", "r", "i", "f", "y", ":">>
S_test_case == <<"t", "e", "s", "t", "_", "c", "a", "s", "e", ":">>
S_that == <<"t", "h", "a", "t", "=">>
S_fail_msg == <<"f", "a", "i", "l", "_", "m", "s", "g", "=">>
S_success_msg == <<"s", "u", "c", "c", "e", "s", "s", "_", "m", "s", "g", "=">>
S_port == <<"p", "o", "r", "t", "=">>
S_host == <<"h", "o", "s", "t", "=">>
S_state == <<"s", "t", "a", "t", "e", "=">>
S_timeout == <<"t", "i", "m", "e", "o", "u", "t", "=">>
S_ellipsis == <<".", ".", ".">>

\* the lower-case form of a character (re.IGNORECASE compares these)
Lower(c) ==
    CASE c = "A" -> "a" [] c = "B" -> "b" [] c = "C" -> "c" [] c = "D" -> "d"
      [] c = "E" -> "e" [] c = "F" -> "f" [] c = "G" -> "g" [] c = "H" -> "h"
      [] c = "I" -> "i" [] c = "J" -> "j" [] c = "K" -> "k" [] c = "L" -> "l"
      [] c = "M" -> "m" [] c = "N" -> "n" [] c = "O" -> "o" [] c = "P" -> "p"
      [] c = "Q" -> "q" [] c = "R" -> "r" [] c = "S" -> "s" [] c = "T" -> "t"
      [] c = "U" -> "u" [] c = "V" -> "v" [] c = "W" -> "w" [] c = "X" -> "x"
      [] c = "Y" -> "y" [] c = "Z" -> "z" [] OTHER -> c

\* the literal lit stands in s at position p
LitAt(s, p, lit) ==
    /\ p + Len(lit) - 1 <= Len(s)
    /\ \A i \in 1..Len(lit) : s[p + i - 1] = lit[i]

\* the same, ignoring case (lit is in lower case)
LitAtI(s, p, lit) ==
    /\ p + Len(lit) - 1 <= Len(s)
    /\ \A i \in 1..Len(lit) : Lower(s[p + i - 1]) = lit[i]

\* the first position >= p of s that holds no whitespace (Len(s) + 1 if none): \s*
SkipWs(s, p) ==
    LET I == {i \in p..Len(s) : s[i] \notin Whitespace}
    IN  IF I = {} THEN Len(s) + 1 ELSE Min(I)

\* the first position >= p of s that holds c (0 if none)
Find(s, p, c) ==
    LET I == {i \in p..Len(s) : s[i] = c}
    IN  IF I = {} THEN 0 ELSE Min(I)

\* the position after the rest of the line that starts at p: .* (no newline)
EndOfLine(s, p) ==
    LET n == Find(s, p, "\n") IN IF n = 0 THEN Len(s) + 1 ELSE n

\* the position after the run of digits that starts at p: \d*
SkipDigits(s, p) ==
    LET I == {i \in p..Len(s) : s[i] \notin Digit}
    IN  IF I = {} THEN Len(s) + 1 ELSE Min(I)

MinParenLen == 50

\* The position after the match of the pattern at position p of s, 0 when the
\* pattern does not match there.
\*   "tag"      \[[^\]]+\]\s*
\*   "verify"   ^Verify:\s*      (IGNORECASE)
\*   "testcase" ^TEST_CASE:\s*   (IGNORECASE)
\*   "parens"   \s*\([^)]{50,}\)
\*   "kw"       \s+(that=|fail_msg=|success_msg=).*
\*   "port"     \s+port=\d+.*
\*   "host"     \s+host=.*
\*   "state"    \s+state=.*
\*   "timeout"  \s+timeout=\d+.*
MatchEnd(pat, s, p) ==
    LET q == SkipWs(s, p)
    IN  CASE pat = "tag" ->
               LET j == Find(s, p + 1, "]")
               IN  IF s[p] = "[" /\ j >= p + 2 THEN SkipWs(s, j + 1) ELSE 0
          [] pat = "verify" ->
               IF p = 1 /\ LitAtI(s, 1, S_verify) THEN SkipWs(s, Len(S_verify) + 1) ELSE 0
          [] pat = "testcase" ->
               IF p = 1 /\ LitAtI(s, 1, S_test_case)
               THEN SkipWs(s, Len(S_test_case) + 1) ELSE 0
          [] pat = "parens" ->
               LET j == Find(s, q + 1, ")")
               IN  IF q <= Len(s) /\ s[q] = "(" /\ j - q - 1 >= MinParenLen
                   THEN j + 1 ELSE 0
          [] pat = "kw" ->
               IF q > p /\ \E lit \in {S_that, S_fail_msg, S_success_msg} : LitAt(s, q, lit)
               THEN EndOfLine(s, q) ELSE 0
          [] pat = "port" ->
               IF q > p /\ LitAt(s, q, S_port) /\ SkipDigits(s, q + Len(S_port)) > q + Len(S_port)
               THEN EndOfLine(s, q) ELSE 0
          [] pat = "host" ->
               IF q > p /\ LitAt(s, q, S_host) THEN EndOfLine(s, q) ELSE 0
          [] pat = "state" ->
               IF q > p /\ LitAt(s, q, S_state) THEN EndOfLine(s, q) ELSE 0
          [] pat = "timeout" ->
               IF q > p /\ LitAt(s, q, S_timeout)
                        /\ SkipDigits(s, q + Len(S_timeout)) > q + Len(S_timeout)
               THEN EndOfLine(s, q) ELSE 0

\* the start of the leftmost match of the pattern at or after position p, 0 if none
NextMatch(pat, s, p) ==
    LET M == {i \in p..Len(s) : MatchEnd(pat, s, i) > i}
    IN  IF M = {} THEN 0 ELSE Min(M)

\* re.sub(pat, '', s) from position p on: every leftmost, non-overlapping match
\* is removed; m is the start of the next match
RECURSIVE re_sub_from(_, _, _, _)
re_sub_from(pat, s, p, m) ==
    IF m = 0 THEN SubSeq(s, p, Len(s))
    ELSE SubSeq(s, p, m - 1)
           \o re_sub_from(pat, s, MatchEnd(pat, s, m),
                          NextMatch(pat, s, MatchEnd(pat, s, m)))

re_sub(pat, s) == re_sub_from(pat, s, 1, NextMatch(pat, s, 1))

\* re.sub(r'\s+', ' ', s): every run of whitespace becomes one space
collapse_ws(s) ==
    LET marked == [i \in 1..Len(s) |->
                     IF s[i] \notin Whitespace THEN <<s[i]>>
                     ELSE IF i = 1 \/ s[i - 1] \notin Whitespace THEN <<" ">>
                     ELSE <<>>]
        Kept(m) == m # <<>>
        kept == SelectSeq(marked, Kept)
    IN  [i \in 1..Len(kept) |-> kept[i][1]]

\* s.split(',')[0]
split_first(s, c) ==
    LET i == Find(s, 1, c) IN IF i = 0 THEN s ELSE SubSeq(s, 1, i - 1)

-----------------------------------------------------------------------------
(* JUnitToHTMLConverter.clean_test_name *)

MaxNameLen == 60
TruncLen == 57

\* if ',' in cleaned: the first part, stripped, without the verbose suffixes
first_part(cleaned) ==
    IF Find(cleaned, 1, ",") # 0
    THEN re_sub("kw", strip(split_first(cleaned, ",")))
    ELSE cleaned

\* variant of truncate: the cut is made at 60 characters
truncate_at_limit(cleaned) ==
    IF Len(cleaned) > MaxNameLen
    THEN SubSeq(cleaned, 1, MaxNameLen) \o S_ellipsis
    ELSE cleaned

\* if len(cleaned) > 60: cleaned[:57] + "..."
truncate(cleaned) ==
    IF Len(cleaned) > MaxNameLen
    THEN SubSeq(cleaned, 1, TruncLen) \o S_ellipsis
    ELSE cleaned

\* return cleaned if cleaned else "Test Case"
or_test_case(cleaned) == IF cleaned # <<>> THEN cleaned ELSE S_Test_Case

\* the rewrites, in the order of the code
prefixes(test_name) ==
    re_sub("parens", re_sub("testcase", re_sub("verify", re_sub("tag", test_name))))

suffixes(cleaned) ==
    re_sub("timeout", re_sub("state", re_sub("host", re_sub("port",
        re_sub("kw", cleaned)))))

\* the rewrites and the clean-up of whitespace
rewrite(test_name) ==
    strip(collapse_ws(suffixes(first_part(prefixes(test_name)))))

clean_test_name(test_name) ==
    IF ~Truthy(test_name) THEN S_Unknown_Test
    ELSE or_test_case(truncate(rewrite(test_name)))

-----------------------------------------------------------------------------
(* JUnitToHTMLConverter.escape_html *)

E_amp == <<"&", "a", "m", "p", ";">>
E_lt == <<"&", "l", "t", ";">>
E_gt == <<"&", "g", "t", ";">>
E_quot == <<"&", "q", "u", "o", "t", ";">>
E_apos == <<"&", "#", "x", "2", "7", ";">>

\* variant of escape_html: '&' is replaced last
escape_html_amp_last(text) ==
    IF ~Truthy(text) THEN <<>>
    ELSE replace(replace(replace(replace(replace(text,
             "<", E_lt), ">", E_gt), "\"", E_quot), "'", E_apos), "&", E_amp)

escape_html(text) ==
    IF ~Truthy(text) THEN <<>>
    ELSE replace(replace(replace(replace(replace(text,
             "&", E_amp), "<", E_lt), ">", E_gt), "\"", E_quot), "'", E_apos)

-----------------------------------------------------------------------------
(* JUnitToHTMLConverter.format_time *)

\* The formatted duration: the unit form chosen, the whole minutes (minutes form
\* only) and the value that is printed in that form, in thousandths of the unit
\* (milliseconds form: of a millisecond; the other forms: of a second).
Formatted(form, minutes, value) == [form |-> form, minutes |-> minutes, value |-> value]
NoTime == Formatted("", 0, 0)

format_time(seconds) ==
    IF seconds.k = "nan" \/ (seconds.k = "inf" /\ seconds.ms > 0)
    THEN \* neither < 1 nor < 60; int(seconds // 60) raises on NaN
         Raise(Exc("ValueError", "cannot convert float NaN to integer", ""))
    ELSE IF seconds.k = "inf"
    THEN Return(Formatted("ms-inf", 0, 0))
    ELSE IF seconds.ms < 1000
    THEN Return(Formatted("ms", 0, seconds.ms * 1000))
    ELSE IF seconds.ms < 60000
    THEN Return(Formatted("s", 0, seconds.ms))
    ELSE Return(Formatted("min", seconds.ms \div 60000, seconds.ms % 60000))

\* the number the format specification prints for a formatted duration, in
\* units of its last digit: tenths of a millisecond (.1f), hundredths of a
\* second (.2f), tenths of a second (.1f). A value half-way between two
\* printed numbers goes to the one the binary float is nearer to: either.
Rounded(value, unit) ==
    IF (value % unit) * 2 < unit THEN {value \div unit}
    ELSE IF (value % unit) * 2 > unit THEN {value \div unit + 1}
    ELSE {value \div unit, value \div unit + 1}

Shown(formatted) ==
    CASE formatted.form = "ms" -> Rounded(formatted.value, 100)
      [] formatted.form = "s" -> Rounded(formatted.value, 10)
      [] formatted.form = "min" -> Rounded(formatted.value, 100)

-----------------------------------------------------------------------------
(* The input document (xml.etree.ElementTree) *)

\* Element.get(key, default): the attribute, or the default when it is absent
get(attr, default) == IF attr = None THEN default ELSE attr

\* variant of int_attr: a value that is no integer literal counts as absent
int_attr_lenient(attr) == IF attr = None \/ ~IsIntLiteral(attr) THEN Return(0) ELSE int(attr)

\* int(elem.get(key, 0)) and float(elem.get(key, 0)): the default is the number 0
int_attr(attr) == IF attr = None THEN Return(0) ELSE int(attr)
float_attr(attr) == IF attr = None THEN Return(Fin(0)) ELSE float(attr)

S_Unknown == <<"U", "n", "k", "n", "o", "w", "n">>
S_Skipped == <<"S", "k", "i", "p", "p", "e", "d">>
S_Error_occurred == <<"E", "r", "r", "o", "r", " ", "o", "c", "c", "u", "r", "r", "e", "d">>
S_Test_failed == <<"T", "e", "s", "t", " ", "f", "a", "i", "l", "e", "d">>

\* x or y
Or(x, y) == IF Truthy(x) THEN x ELSE y

-----------------------------------------------------------------------------
(* JUnitToHTMLConverter.parse_junit_xml *)

\* variant of case_outcome: the message of every marker that is present is kept
case_outcome_all_messages(testcase) ==
    [status |-> IF testcase.skipped # NoChild THEN "skipped"
                ELSE IF testcase.error # NoChild THEN "error"
                ELSE IF testcase.failure # NoChild THEN "failed"
                ELSE "passed",
     skipped |-> IF testcase.skipped # NoChild
                 THEN Or(testcase.skipped, S_Skipped) ELSE <<>>,
     error |-> IF testcase.error # NoChild
               THEN Or(testcase.error, S_Error_occurred) ELSE <<>>,
     failure |-> IF testcase.failure # NoChild
                 THEN Or(testcase.failure, S_Test_failed) ELSE <<>>]

\* variant of case_outcome: the error marker is looked at before the skipped one
case_outcome_error_first(testcase) ==
    IF testcase.error # NoChild
    THEN [status |-> "error", skipped |-> <<>>,
          error |-> Or(testcase.error, S_Error_occurred), failure |-> <<>>]
    ELSE IF testcase.skipped # NoChild
    THEN [status |-> "skipped", skipped |-> Or(testcase.skipped, S_Skipped),
          error |-> <<>>, failure |-> <<>>]
    ELSE IF testcase.failure # NoChild
    THEN [status |-> "failed", skipped |-> <<>>, error |-> <<>>,
          failure |-> Or(testcase.failure, S_Test_failed)]
    ELSE [status |-> "passed", skipped |-> <<>>, error |-> <<>>, failure |-> <<>>]

\* the status of a testcase element and the three message fields
case_outcome(testcase) ==
    IF testcase.skipped # NoChild
    THEN [status |-> "skipped", skipped |-> Or(testcase.skipped, S_Skipped),
          error |-> <<>>, failure |-> <<>>]
    ELSE IF testcase.error # NoChild
    THEN [status |-> "error", skipped |-> <<>>,
          error |-> Or(testcase.error, S_Error_occurred), failure |-> <<>>]
    ELSE IF testcase.failure # NoChild
    THEN [status |-> "failed", skipped |-> <<>>, error |-> <<>>,
          failure |-> Or(testcase.failure, S_Test_failed)]
    ELSE [status |-> "passed", skipped |-> <<>>, error |-> <<>>, failure |-> <<>>]

\* the text of the system-out child, stripped, when there is one with text
case_system_out(testcase) ==
    IF testcase.system_out # NoChild /\ Truthy(testcase.system_out)
    THEN strip(testcase.system_out) ELSE <<>>

\* case_data of a testcase whose time attribute parsed as t, with outcome o
case_data(testcase, t, o) ==
    [name |-> get(testcase.name, S_Unknown),
     classname |-> get(testcase.classname, <<>>),
     time |-> t,
     status |-> o.status,
     system_out |-> case_system_out(testcase),
     skipped |-> o.skipped,
     error |-> o.error,
     failure |-> o.failure]

\* the body of the loop over testsuite.findall('testcase'): one case_data, or
\* the raise of float()
parse_case_time(testcase, t) ==
    IF ~t.ok THEN t ELSE Return(case_data(testcase, t.val, case_outcome(testcase)))

parse_case(testcase) == parse_case_time(testcase, float_attr(testcase.time))

\* the loop: the case_data of every testcase in document order, or the first raise
RECURSIVE parse_cases(_)
parse_cases(cases) ==
    IF cases = <<>> THEN Return(<<>>)
    ELSE Then(Single(parse_case(Head(cases))), parse_cases(Tail(cases)))

\* the numeric attributes of the testsuite element, in the order they are read
suite_numbers(testsuite) ==
    << int_attr(testsuite.tests), int_attr(testsuite.disabled),
       int_attr(testsuite.errors), int_attr(testsuite.failures),
       int_attr(testsuite.skipped), float_attr(testsuite.time) >>

\* variant of suite_data: the passed count is clamped at zero
suite_data_clamped(testsuite, n, cases) ==
    [name |-> get(testsuite.name, S_Unknown),
     tests |-> n[1].val,
     disabled |-> n[2].val,
     errors |-> n[3].val,
     failures |-> n[4].val,
     skipped |-> n[5].val,
     time |-> n[6].val,
     passed |-> IF n[1].val - n[3].val - n[4].val - n[5].val < 0 THEN 0
                ELSE n[1].val - n[3].val - n[4].val - n[5].val,
     test_cases |-> cases]

\* suite_data from the parsed numbers n and the parsed cases
suite_data(testsuite, n, cases) ==
    [name |-> get(testsuite.name, S_Unknown),
     tests |-> n[1].val,
     disabled |-> n[2].val,
     errors |-> n[3].val,
     failures |-> n[4].val,
     skipped |-> n[5].val,
     time |-> n[6].val,
     passed |-> n[1].val - n[3].val - n[4].val - n[5].val,
     test_cases |-> cases]

\* the results among rs that are a raise
Raised(rs) == SelectSeq(rs, LAMBDA r : ~r.ok)

parse_suite_cases(testsuite, n, cases) ==
    IF ~cases.ok THEN cases ELSE Return(suite_data(testsuite, n, cases.val))

parse_suite_numbers(testsuite, n) ==
    IF Raised(n) # <<>> THEN Raise(Raised(n)[1].exc)
    ELSE parse_suite_cases(testsuite, n, parse_cases(testsuite.cases))

\* suite_data of the testsuite element, or the first raise of int() or float()
parse_suite(testsuite) == parse_suite_numbers(testsuite, suite_numbers(testsuite))

\* the try block: ET.parse(xml_file), root.find('testsuite'), the extraction
parse_try(fs, document) ==
    IF fs = "missing" THEN Raise(Exc("FileNotFoundError", "No such file or directory", ""))
    ELSE IF fs = "directory" THEN Raise(Exc("IsADirectoryError", "Is a directory", ""))
    ELSE IF fs = "unreadable" THEN Raise(Exc("PermissionError", "Permission denied", ""))
    ELSE IF ~document.wf THEN Raise(Exc("ParseError", "not well-formed", ""))
    ELSE IF document.suites = <<>>
    THEN Raise(Exc("ValueError", "No testsuite found in XML", ""))
    ELSE parse_suite(document.suites[1])

\* the except clauses: a ParseError and any other exception become a ValueError
except(r) ==
    IF r.ok THEN r
    ELSE IF r.exc.type = "ParseError"
    THEN Raise(Exc("ValueError", "Invalid XML file", r.exc.type))
    ELSE Raise(Exc("ValueError", "Error parsing XML", r.exc.type))

parse_junit_xml(fs, document) == except(parse_try(fs, document))

-----------------------------------------------------------------------------
(* JUnitToHTMLConverter.generate_html: html_content *)

\* One place of html_content where a value is embedded: the place, and the value
\* as a number, a text, a formatted time or a fixed label.
Item(place, num, text, time, label) ==
    [place |-> place, num |-> num, text |-> text, time |-> time, label |-> label]
TextItem(place, text) == Item(place, 0, text, NoTime, "")
NumItem(place, num) == Item(place, num, <<>>, NoTime, "")

upper(status) ==
    CASE status = "passed" -> "PASSED" [] status = "failed" -> "FAILED"
      [] status = "error" -> "ERROR" [] status = "skipped" -> "SKIPPED"

\* the status-specific note of a test case
status_note(test_case) ==
    IF test_case.status = "skipped" /\ Truthy(test_case.skipped)
    THEN <<TextItem("skipped-reason", escape_html(test_case.skipped))>>
    ELSE IF test_case.status = "error" /\ Truthy(test_case.error)
    THEN <<TextItem("error-message", escape_html(test_case.error))>>
    ELSE IF test_case.status = "failed" /\ Truthy(test_case.failure)
    THEN <<TextItem("failure-message", escape_html(test_case.failure))>>
    ELSE <<>>

\* the system output of a test case, when it has one
output_note(test_case) ==
    IF Truthy(test_case.system_out)
    THEN <<TextItem("system-out", escape_html(test_case.system_out))>>
    ELSE <<>>

\* the block of the test case numbered i, its duration formatted as duration
case_block(i, test_case, cleaned_name, duration) ==
    << Item("test-name", i, escape_html(cleaned_name), NoTime, ""),
       Item("test-status", 0, <<>>, NoTime, upper(test_case.status)),
       TextItem("full-name", escape_html(test_case.name)),
       Item("duration", 0, <<>>, duration, ""),
       TextItem("class", escape_html(test_case.classname)) >>
    \o status_note(test_case) \o output_note(test_case)

render_case_time(i, test_case, duration) ==
    IF ~duration.ok THEN duration
    ELSE Return(case_block(i, test_case, clean_test_name(test_case.name), duration.val))

\* the body of the loop over the test cases, or the raise of format_time
render_case(i, test_case) == render_case_time(i, test_case, format_time(test_case.time))

RECURSIVE render_cases(_, _)

\* variant of render_cases: enumerate(test_cases) without the start value 1
render_cases_from_zero(test_cases, i) ==
    IF i > Len(test_cases) THEN Return(<<>>)
    ELSE Then(render_case(i - 1, test_cases[i]), render_cases(test_cases, i + 1))

\* for i, test_case in enumerate(test_cases, 1)
render_cases(test_cases, i) ==
    IF i > Len(test_cases) THEN Return(<<>>)
    ELSE Then(render_case(i, test_cases[i]), render_cases(test_cases, i + 1))

\* the source info section
source_section(source_file) ==
    IF Truthy(source_file)
    THEN <<TextItem("source-path", escape_html(source_file))>>
    ELSE <<>>

\* the head of the document: title, header, summary tiles, the Test Cases header
head_block(data, source_file, total) ==
    << TextItem("title", data.name),
       TextItem("subtitle", data.name) >>
    \o source_section(source_file)
    \o << NumItem("tests-total", data.tests),
          NumItem("tests-passed", data.passed),
          NumItem("tests-failed", data.failures),
          NumItem("tests-errors", data.errors),
          NumItem("tests-skipped", data.skipped),
          Item("total-time", 0, <<>>, total, ""),
          NumItem("test-cases-count", Len(data.test_cases)) >>

render_head_time(data, source_file, total) ==
    IF ~total.ok THEN total ELSE Return(head_block(data, source_file, total.val))

render_head(data, source_file) ==
    render_head_time(data, source_file, format_time(data.time))

\* html_content as generate_html builds it, or the exception format_time raises
render(data, source_file) ==
    Then(render_head(data, source_file),
         Then(render_cases(data.test_cases, 1),
              Return(<<Item("footer", 0, <<>>, NoTime, "")>>)))

-----------------------------------------------------------------------------
(* The inputs of the model *)

\* bounds of the enumerated inputs
MaxCases == 2      \* testcase elements in a document
MaxInLen == 3      \* characters of an enumerated input path
MaxOutLen == 2     \* characters of an enumerated output argument

\* all strings over an alphabet of at most n characters
StringsUpTo(alphabet, n) == UNION {[1..k -> alphabet] : k \in 0..n}

\* all sequences over a set of at most n elements
SeqsUpTo(S, n) == UNION {[1..k -> S] : k \in 0..n}

\* a lone surrogate: what os.fsdecode makes of a file-name byte that is not UTF-8
Surrogate == "\\udce9"

P_reports_x_xml == <<"r", "e", "p", "o", "r", "t", "s", "/", "x", ".", "x", "m", "l">>
P_reports_x_report_html ==
    <<"r", "e", "p", "o", "r", "t", "s", "/", "x", "_", "r", "e", "p", "o", "r", "t",
      ".", "h", "t", "m", "l">>
P_out_html == <<"o", "u", "t", ".", "h", "t", "m", "l">>
P_reports_out_html == <<"r", "e", "p", "o", "r", "t", "s", "/">> \o P_out_html
P_tmp_out_html == <<"/", "t", "m", "p", "/">> \o P_out_html
P_surrogate == <<"t", Surrogate, "s", "t", ".", "x", "m", "l">>

PathAlphabet == {"a", "/", "."}
InputPaths == StringsUpTo(PathAlphabet, MaxInLen) \cup {P_reports_x_xml}
OutputArgs == StringsUpTo(PathAlphabet, MaxOutLen)
                 \cup {None, P_out_html, P_tmp_out_html}

\* a path that can only name a directory: it ends with a separator, or its last
\* component is "." or ".."
IsDirName(path) == basename(path) \in {<<>>, <<".">>, <<".", ".">>}

\* what the file system can hold at a path: nothing at the empty path, and no
\* regular file at a path that can only name a directory
FsStates(path) ==
    IF path = <<>> THEN {"missing"}
    ELSE IF IsDirName(path) THEN {"missing", "directory"}
    ELSE {"missing", "directory", "unreadable", "file"}

\* texts of the input document
T_a == <<"a">>
T_tag == <<"<", "b", ">">>
T_quot == <<"&", "'", "\"">>
T_skip == <<"<", "s">>
T_err == <<"e", "&">>
T_fail == <<"'", "f">>
T_out == <<" ", "<", "o", ">", "\n">>
T_blank == <<" ", " ">>
T_verify == <<"[", "h", "]", " ", "V", "e", "r", "i", "f", "y", ":", " ", "u", "p">>

\* attribute values of the numeric attributes
N_0 == <<"0">>
N_1 == <<"1">>
N_3 == <<"3">>
N_neg == <<"-", "1">>
N_padded == <<" ", "2", " ">>
N_x == <<"x">>
N_frac == <<"1", ".", "5">>
N_empty == <<>>
N_nan == <<"n", "a", "n">>
N_inf == <<"i", "n", "f">>
N_half == <<"0", ".", "5">>
N_61 == <<"6", "1">>

CaseElem(name, classname, time, skipped, error, failure, system_out) ==
    [name |-> name, classname |-> classname, time |-> time, skipped |-> skipped,
     error |-> error, failure |-> failure, system_out |-> system_out]

PlainCase == CaseElem(T_a, None, None, NoChild, NoChild, NoChild, NoChild)

\* every combination of markers: absent, present without text, present with text
MarkerCases ==
    {CaseElem(T_a, None, None, sk, er, fa, NoChild) :
        sk \in {NoChild, None, T_skip}, er \in {NoChild, None, T_err},
        fa \in {NoChild, None, T_fail}}

\* the other attributes and children of a case, varied one at a time
FieldCases ==
    {CaseElem(n, None, None, NoChild, NoChild, NoChild, NoChild) :
        n \in {None, <<>>, T_tag, T_verify}}
    \cup {CaseElem(T_a, T_quot, None, NoChild, NoChild, NoChild, NoChild)}
    \cup {CaseElem(T_a, None, t, NoChild, NoChild, NoChild, NoChild) :
            t \in {N_half, N_61, N_x, N_nan}}
    \cup {CaseElem(T_a, None, None, NoChild, NoChild, NoChild, o) :
            o \in {None, T_blank, T_out}}
    \cup {CaseElem(T_tag, T_quot, N_padded, NoChild, T_err, T_fail, T_out)}

CaseElems == MarkerCases \cup FieldCases

SuiteElem(name, tests, disabled, errors, failures, skipped, time, cases) ==
    [name |-> name, tests |-> tests, disabled |-> disabled, errors |-> errors,
     failures |-> failures, skipped |-> skipped, time |-> time, cases |-> cases]

Document(wf, suites) == [wf |-> wf, suites |-> suites]

PlainSuite == SuiteElem(T_a, N_1, None, None, None, None, None, <<PlainCase>>)
PlainDoc == Document(TRUE, <<PlainSuite>>)

\* documents that vary the attributes of the suite
SuiteDocs ==
    {Document(TRUE, <<SuiteElem(T_tag, te, di, er, fa, sk, ti, <<PlainCase>>)>>) :
        te \in {None, N_0, N_3, N_neg, N_padded, N_x, N_frac, N_empty},
        di \in {None, N_1, N_x},
        er \in {None, N_1, N_3, N_x},
        fa \in {None, N_1, N_x},
        sk \in {None, N_1, N_frac},
        ti \in {None, N_half, N_61, N_x, N_nan, N_inf}}

\* the cases that the longer documents are made of: one of each status, one that
\* parse_junit_xml refuses, one that generate_html refuses
CoreCases ==
    {PlainCase,
     CaseElem(T_tag, None, N_half, T_skip, NoChild, T_fail, NoChild),
     CaseElem(T_verify, T_quot, N_61, NoChild, None, NoChild, T_out),
     CaseElem(None, None, None, NoChild, NoChild, T_fail, NoChild),
     CaseElem(T_a, None, N_x, NoChild, NoChild, NoChild, NoChild),
     CaseElem(T_a, None, N_nan, NoChild, NoChild, NoChild, NoChild)}

\* the lists of test cases: every case alone, and the core cases in every order
CaseLists == {<<c>> : c \in CaseElems} \cup SeqsUpTo(CoreCases, MaxCases)

\* documents that vary the test cases
CaseDocs ==
    {Document(TRUE, <<SuiteElem(n, te, None, None, None, None, None, cs)>>) :
        n \in {None, T_quot}, te \in {None, N_3}, cs \in CaseLists}

\* documents without a usable suite, and one with a second suite
BrokenDocs ==
    {Document(FALSE, <<>>), Document(TRUE, <<>>),
     Document(TRUE, <<PlainSuite, SuiteElem(T_tag, N_3, None, None, None, None, None, <<>>)>>)}

\* The inputs of one run: the method called, its arguments, the file system.
Run(e, i, o, fs, d, old) ==
    [entry |-> e, input_file |-> i, output_arg |-> o, fs_input |-> fs, doc |-> d,
     old |-> old]

P_a_xml == <<"a", ".", "x">>

Runs ==
    \* the paths
    {Run("convert", i, o, fs, PlainDoc, FALSE) :
        i \in InputPaths, o \in OutputArgs, fs \in {"file", "missing", "directory"}}
    \* the file system and the broken documents
    \cup {Run(e, i, None, fs, d, old) :
            e \in {"convert", "parse"}, i \in {P_a_xml, P_surrogate},
            fs \in {"missing", "directory", "unreadable", "file"},
            d \in BrokenDocs \cup {PlainDoc}, old \in BOOLEAN}
    \* the documents
    \cup {Run(e, P_a_xml, None, "file", d, FALSE) :
            e \in {"convert", "parse"}, d \in SuiteDocs \cup CaseDocs}

ValidRun(r) == r.fs_input \in FsStates(r.input_file)

-----------------------------------------------------------------------------
(* The state machine: convert, and a direct call of parse_junit_xml *)

NoData == [name |-> None]
OldReport == <<TextItem("old-report", <<>>)>>
\* the file at the output path: whether it exists, what it holds, and the path
\* that open() was called with (None before the call)
File(exists, content, opened) == [exists |-> exists, content |-> content, opened |-> opened]
NoCall == <<"<NoCall>">>

Line(msg, path, nums) == [msg |-> msg, path |-> path, nums |-> nums]

Init ==
    \E r \in {x \in Runs : ValidRun(x)} :
        /\ entry = r.entry
        /\ input_file = r.input_file
        /\ output_arg = r.output_arg
        /\ fs_input = r.fs_input
        /\ doc = r.doc
        /\ disk = IF r.old THEN File(TRUE, OldReport, None) ELSE File(FALSE, <<>>, None)
        /\ pc = "start"
        /\ output_file = None
        /\ test_data = NoData
        /\ html_content = <<>>
        /\ exc = NoExc
        /\ ret = None
        /\ stdout = <<>>
        /\ ran = {}
        /\ call_arg = NoCall /\ call_tmp = NoCall /\ call_ret = NoCall
        /\ call_pc = "idle"
        /\ NoPage

Inputs == <<entry, input_file, output_arg, fs_input, doc>>

\* a direct call of parse_junit_xml(input_file)
ParseCall ==
    /\ pc = "start" /\ entry = "parse"
    /\ \E r \in {parse_junit_xml(fs_input, doc)} :
           /\ test_data' = IF r.ok THEN r.val ELSE test_data
           /\ ret' = IF r.ok THEN <<"test_data">> ELSE ret
           /\ exc' = r.exc
           /\ pc' = IF r.ok THEN "done" ELSE "failed"
    /\ ran' = ran \cup {"parse"}
    /\ UNCHANGED <<Inputs, output_file, html_content, disk, stdout>>
    /\ UNCHANGED <<CallVars, PageVars>>

\* variant of ConvertExists: the existence of input_file is not checked
ConvertExists_unchecked ==
    /\ pc = "start" /\ entry = "convert"
    /\ pc' = "resolve"
    /\ ran' = ran \cup {"exists"}
    /\ UNCHANGED <<Inputs, output_file, test_data, html_content, disk, exc, ret, stdout>>
    /\ UNCHANGED <<CallVars, PageVars>>

\* convert: if not os.path.exists(input_file): raise FileNotFoundError
ConvertExists ==
    /\ pc = "start" /\ entry = "convert"
    /\ IF fs_input = "missing"
       THEN /\ exc' = Exc("FileNotFoundError", "Input file not found", "")
            /\ pc' = "failed"
       ELSE /\ exc' = exc
            /\ pc' = "resolve"
    /\ ran' = ran \cup {"exists"}
    /\ UNCHANGED <<Inputs, output_file, test_data, html_content, disk, ret, stdout>>
    /\ UNCHANGED <<CallVars, PageVars>>

S_report_html == <<"_", "r", "e", "p", "o", "r", "t", ".", "h", "t", "m", "l">>

\* variant of resolve_output: a bare output name is used as it is given
resolve_output_as_given(input, output) ==
    IF output = None
    THEN join(dirname(input), splitext(basename(input))[1] \o S_report_html)
    ELSE output

\* convert: the resolution of output_file
resolve_output(input, output) ==
    IF output = None
    THEN join(dirname(input), splitext(basename(input))[1] \o S_report_html)
    ELSE IF dirname(output) = <<>>
    THEN join(dirname(input), output)
    ELSE output

ConvertResolve ==
    /\ pc = "resolve"
    /\ output_file' = resolve_output(input_file, output_arg)
    /\ pc' = "parse"
    /\ ran' = ran \cup {"resolve"}
    /\ UNCHANGED <<Inputs, test_data, html_content, disk, exc, ret, stdout>>
    /\ UNCHANGED <<CallVars, PageVars>>

\* convert: test_data = self.parse_junit_xml(input_file)
ConvertParse ==
    /\ pc = "parse"
    /\ \E r \in {parse_junit_xml(fs_input, doc)} :
           /\ test_data' = IF r.ok THEN r.val ELSE test_data
           /\ exc' = r.exc
           /\ pc' = IF r.ok THEN "render" ELSE "failed"
    /\ stdout' = Append(stdout, Line("Parsing JUnit XML", input_file, <<>>))
    /\ ran' = ran \cup {"parse"}
    /\ UNCHANGED <<Inputs, output_file, html_content, disk, ret>>
    /\ UNCHANGED <<CallVars, PageVars>>

\* generate_html: html_content is built in memory
GenerateRender ==
    /\ pc = "render"
    /\ \E r \in {render(test_data, input_file)} :
           /\ html_content' = IF r.ok THEN r.val ELSE html_content
           /\ exc' = r.exc
           /\ pc' = IF r.ok THEN "open" ELSE "failed"
    /\ stdout' = Append(stdout, Line("Generating HTML report", output_file, <<>>))
    /\ ran' = ran \cup {"render"}
    /\ UNCHANGED <<Inputs, output_file, test_data, disk, ret>>
    /\ UNCHANGED <<CallVars, PageVars>>

\* a regular file can be made at the path
CanBeFile(path) == ~IsDirName(path)

\* generate_html: open(output_file, 'w', encoding='utf-8') makes the file, or
\* truncates the one that is there; or it fails and leaves the disk as it is
GenerateOpen ==
    /\ pc = "open"
    /\ \/ /\ CanBeFile(output_file)
          /\ disk' = File(TRUE, <<>>, output_file)
          /\ exc' = exc
          /\ pc' = "write"
       \/ /\ disk' = disk
          /\ exc' = Exc("OSError", "cannot open the output file", "")
          /\ pc' = "failed"
    /\ ran' = ran \cup {"open"}
    /\ UNCHANGED <<Inputs, output_file, test_data, html_content, ret, stdout>>
    /\ UNCHANGED <<CallVars, PageVars>>

\* the text cannot be encoded as UTF-8
HasSurrogate(content) ==
    \E i \in 1..Len(content) :
        \E k \in 1..Len(content[i].text) : content[i].text[k] = Surrogate

\* generate_html: f.write(html_content) and the end of the with block
GenerateWrite ==
    /\ pc = "write"
    /\ IF HasSurrogate(html_content)
       THEN /\ disk' = disk
            /\ exc' = Exc("UnicodeEncodeError", "surrogates not allowed", "")
            /\ pc' = "failed"
       ELSE \/ /\ disk' = File(TRUE, html_content, output_file)
               /\ exc' = exc
               /\ pc' = "return"
            \/ /\ disk' = File(TRUE, SubSeq(html_content, 1, Len(html_content) \div 2), output_file)
               /\ exc' = Exc("OSError", "No space left on device", "")
               /\ pc' = "failed"
    /\ ran' = ran \cup {"write"}
    /\ UNCHANGED <<Inputs, output_file, test_data, html_content, ret, stdout>>
    /\ UNCHANGED <<CallVars, PageVars>>

\* convert: the two last prints and return output_file
ConvertReturn ==
    /\ pc = "return"
    /\ stdout' = stdout \o
          << Line("Report generated successfully!", <<>>, <<>>),
             Line("Summary", <<>>, <<test_data.tests, test_data.passed, test_data.failures,
                                     test_data.errors, test_data.skipped>>) >>
    /\ ret' = output_file
    /\ pc' = "done"
    /\ UNCHANGED <<Inputs, output_file, test_data, html_content, disk, exc, ran>>
    /\ UNCHANGED <<CallVars, PageVars>>

Next ==
    \/ ParseCall
    \/ ConvertExists
    \/ ConvertResolve
    \/ ConvertParse
    \/ GenerateRender
    \/ GenerateOpen
    \/ GenerateWrite
    \/ ConvertReturn

Spec == Init /\ [][Next]_vars

-----------------------------------------------------------------------------
(* A call of clean_test_name, step by step *)

MaxChunks == 2

Repeat(c, n) == [i \in 1..n |-> c]

\* the pieces test names are put together from: what the rewrites look for,
\* and runs long enough to reach the limit of 60 characters
Chunks ==
    {<<"a">>, <<" ">>, <<",">>, <<"\n">>, <<"[", "]">>,
     <<"[", "h", "]", " ">>,
     <<"V", "e", "r", "i", "f", "y", ":", " ">>,
     <<"T", "E", "S", "T", "_", "C", "A", "S", "E", ":", " ">>,
     <<" ">> \o S_that \o <<"x">>,
     <<" ">> \o S_fail_msg \o <<"x">>,
     <<" ">> \o S_port \o <<"8", "0">>,
     <<" ">> \o S_host \o <<"h">>,
     <<" ">> \o S_state \o <<"u", "p">>,
     <<" ">> \o S_timeout \o <<"5">>,
     <<" ", "(">> \o Repeat("p", MinParenLen) \o <<")">>,
     <<"(">> \o Repeat("p", MinParenLen - 1) \o <<")">>,
     Repeat("w", MaxNameLen \div 2),
     Repeat("v", MaxNameLen \div 2 + 1),
     Repeat(" ", MaxNameLen + 1)}

RECURSIVE Concat(_)
Concat(chunks) == IF chunks = <<>> THEN <<>> ELSE Head(chunks) \o Concat(Tail(chunks))

TestNames == {None} \cup {Concat(cs) : cs \in SeqsUpTo(Chunks, MaxChunks)}

InitClean ==
    /\ call_arg \in TestNames
    /\ call_tmp = NoCall /\ call_ret = NoCall
    /\ call_pc = "entry"
    /\ entry = "clean" /\ pc = "done"
    /\ input_file = None /\ output_arg = None /\ fs_input = "missing"
    /\ doc = PlainDoc
    /\ disk = File(FALSE, <<>>, None)
    /\ output_file = None /\ test_data = NoData /\ html_content = <<>>
    /\ exc = NoExc /\ ret = None /\ stdout = <<>> /\ ran = {}
    /\ NoPage

\* if not test_name: return "Unknown Test"; cleaned = test_name
CleanEntry ==
    /\ call_pc = "entry"
    /\ IF ~Truthy(call_arg)
       THEN call_ret' = S_Unknown_Test /\ call_tmp' = call_tmp /\ call_pc' = "returned"
       ELSE call_ret' = call_ret /\ call_tmp' = call_arg /\ call_pc' = "rewrite"
    /\ UNCHANGED <<call_arg, ConvertVars, PageVars>>

\* the re.sub calls, the comma split and the clean-up of whitespace
CleanRewrite ==
    /\ call_pc = "rewrite"
    /\ call_tmp' = rewrite(call_tmp)
    /\ call_pc' = "finish"
    /\ UNCHANGED <<call_arg, call_ret, ConvertVars, PageVars>>

\* the truncation and return cleaned if cleaned else "Test Case"
CleanFinish ==
    /\ call_pc = "finish"
    /\ call_ret' = or_test_case(truncate(call_tmp))
    /\ call_pc' = "returned"
    /\ UNCHANGED <<call_arg, call_tmp, ConvertVars, PageVars>>

NextClean == CleanEntry \/ CleanRewrite \/ CleanFinish

SpecClean == InitClean /\ [][NextClean]_vars

-----------------------------------------------------------------------------
(* A call of escape_html *)

MaxTextChunks == 3

\* the pieces texts are put together from: the five characters that are
\* escaped, what entities are made of, and entities that are in the text already
TextChunks ==
    {<<"&">>, <<"<">>, <<">">>, <<"\"">>, <<"'">>, <<"a">>, <<";">>,
     <<"l", "t", ";">>, E_amp, E_apos}

Texts == {None} \cup {Concat(cs) : cs \in SeqsUpTo(TextChunks, MaxTextChunks)}

InitEscape ==
    /\ call_arg \in Texts
    /\ call_tmp = NoCall /\ call_ret = NoCall
    /\ call_pc = "entry"
    /\ entry = "escape" /\ pc = "done"
    /\ input_file = None /\ output_arg = None /\ fs_input = "missing"
    /\ doc = PlainDoc
    /\ disk = File(FALSE, <<>>, None)
    /\ output_file = None /\ test_data = NoData /\ html_content = <<>>
    /\ exc = NoExc /\ ret = None /\ stdout = <<>> /\ ran = {}
    /\ NoPage

\* escape_html(text)
EscapeCall ==
    /\ call_pc = "entry" /\ entry = "escape"
    /\ call_ret' = escape_html(call_arg)
    /\ call_pc' = "returned"
    /\ UNCHANGED <<call_arg, call_tmp, ConvertVars, PageVars>>

NextEscape == EscapeCall

SpecEscape == InitEscape /\ [][NextEscape]_vars

-----------------------------------------------------------------------------
(* A call of format_time *)

MaxMinutes == 3

\* the floats format_time is called with: the thousandths of a second from
\* -1 s to MaxMinutes minutes, and what float() makes of "nan", "inf", "-inf"
Durations ==
    {Fin(ms) : ms \in -1000..(MaxMinutes * 60000 - 1)} \cup {NaN, Inf(1), Inf(-1)}

InitTime ==
    /\ call_arg \in Durations
    /\ call_tmp = NoCall /\ call_ret = NoCall
    /\ call_pc = "entry"
    /\ entry = "time" /\ pc = "done"
    /\ input_file = None /\ output_arg = None /\ fs_input = "missing"
    /\ doc = PlainDoc
    /\ disk = File(FALSE, <<>>, None)
    /\ output_file = None /\ test_data = NoData /\ html_content = <<>>
    /\ exc = NoExc /\ ret = None /\ stdout = <<>> /\ ran = {}
    /\ NoPage

\* format_time(seconds): the formatted duration is returned, or the call raises
TimeCall ==
    /\ call_pc = "entry" /\ entry = "time"
    /\ \E r \in {format_time(call_arg)} :
           /\ call_ret' = IF r.ok THEN r.val ELSE call_ret
           /\ exc' = r.exc
           /\ call_pc' = IF r.ok THEN "returned" ELSE "raised"
    /\ UNCHANGED <<call_arg, call_tmp, PageVars>>
    /\ UNCHANGED <<Inputs, pc, output_file, test_data, html_content, disk, ret, stdout, ran>>

NextTime == TimeCall

SpecTime == InitTime /\ [][NextTime]_vars

-----------------------------------------------------------------------------
(* The script of the report: the DOMContentLoaded handler and toggleTestDetails *)

MaxBlocks == 3

\* the glyphs of the toggle button: U+25B6 and U+25BC
Glyph_collapsed == "right-pointing triangle"
Glyph_expanded == "down-pointing triangle"

\* a .test-case block: the text and the 'expanded' class of its .toggle-button,
\* and the 'expanded' class of its .test-details
Block(textContent, button_expanded, details_expanded) ==
    [toggleBtn |-> [textContent |-> textContent, expanded |-> button_expanded],
     details |-> [expanded |-> details_expanded]]

\* the block as generate_html writes it
StaticBlock == Block(Glyph_collapsed, FALSE, FALSE)

\* variant of toggleTestDetails: collapsing leaves the class of the button
toggleTestDetails_button_kept(block) ==
    IF block.details.expanded
    THEN Block(Glyph_collapsed, block.toggleBtn.expanded, FALSE)
    ELSE Block(Glyph_expanded, TRUE, TRUE)

\* function toggleTestDetails(toggleBtn, details)
toggleTestDetails(block) ==
    IF block.details.expanded
    THEN Block(Glyph_collapsed, FALSE, FALSE)
    ELSE Block(Glyph_expanded, TRUE, TRUE)

\* the set-up of one block by the DOMContentLoaded handler
initialize(block) == Block(Glyph_collapsed, block.toggleBtn.expanded, FALSE)

\* variant of expand_all: every block is toggled
expand_all_toggled(blocks) ==
    [b \in 1..Len(blocks) |-> toggleTestDetails(blocks[b])]

\* the click listener of #expand-all
expand_all(blocks) ==
    [b \in 1..Len(blocks) |->
        IF ~blocks[b].details.expanded THEN toggleTestDetails(blocks[b]) ELSE blocks[b]]

\* the click listener of #collapse-all
collapse_all(blocks) ==
    [b \in 1..Len(blocks) |->
        IF blocks[b].details.expanded THEN toggleTestDetails(blocks[b]) ELSE blocks[b]]

Event(type, index) == [type |-> type, index |-> index]

\* a report of up to MaxBlocks test cases has been parsed by the browser; its
\* texts carry no markup of their own
InitPage ==
    /\ \E n \in 0..MaxBlocks : testCases = [b \in 1..n |-> StaticBlock]
    /\ page_pc = "parsed"
    /\ event = NoEvent
    /\ before = <<>>
    /\ entry = "page" /\ pc = "done"
    /\ input_file = None /\ output_arg = None /\ fs_input = "missing"
    /\ doc = PlainDoc
    /\ disk = File(FALSE, <<>>, None)
    /\ output_file = None /\ test_data = NoData /\ html_content = <<>>
    /\ exc = NoExc /\ ret = None /\ stdout = <<>> /\ ran = {}
    /\ call_arg = NoCall /\ call_tmp = NoCall /\ call_ret = NoCall
    /\ call_pc = "idle"

\* the page after an event: what the event was, what it found, what it left
Handled(type, index, blocks) ==
    /\ event' = Event(type, index)
    /\ before' = testCases
    /\ testCases' = blocks
    /\ UNCHANGED <<ConvertVars, CallVars>>

\* DOMContentLoaded: every block is set to collapsed and the listeners are added
PageLoad ==
    /\ page_pc = "parsed"
    /\ page_pc' = "loaded"
    /\ Handled("load", 0, [b \in 1..Len(testCases) |-> initialize(testCases[b])])

\* a click on the .test-header of a block
HeaderClick ==
    /\ page_pc = "loaded"
    /\ page_pc' = page_pc
    /\ \E b \in 1..Len(testCases) :
           Handled("header-click", b,
                   [testCases EXCEPT ![b] = toggleTestDetails(testCases[b])])

\* a click on #expand-all
ExpandAllClick ==
    /\ page_pc = "loaded"
    /\ page_pc' = page_pc
    /\ Handled("expand-all-click", 0, expand_all(testCases))

\* a click on #collapse-all
CollapseAllClick ==
    /\ page_pc = "loaded"
    /\ page_pc' = page_pc
    /\ Handled("collapse-all-click", 0, collapse_all(testCases))

\* the keys of the keydown events
Keys == {"a", "d", "A", "x"}
KeyDown(key, ctrlKey, metaKey) ==
    [type |-> "keydown", index |-> 0, key |-> key, ctrlKey |-> ctrlKey, metaKey |-> metaKey]

\* the keydown listener of the document
keydown(e, blocks) ==
    IF e.ctrlKey \/ e.metaKey
    THEN IF e.key = "a" THEN expand_all(blocks)
         ELSE IF e.key = "d" THEN collapse_all(blocks)
         ELSE blocks
    ELSE blocks

\* a key is pressed
KeyPress ==
    /\ page_pc = "loaded"
    /\ page_pc' = page_pc
    /\ \E key \in Keys, ctrlKey \in BOOLEAN, metaKey \in BOOLEAN :
           /\ event' = KeyDown(key, ctrlKey, metaKey)
           /\ before' = testCases
           /\ testCases' = keydown(KeyDown(key, ctrlKey, metaKey), testCases)
    /\ UNCHANGED <<ConvertVars, CallVars>>

NextPage == PageLoad \/ HeaderClick \/ ExpandAllClick \/ CollapseAllClick \/ KeyPress

SpecPage == InitPage /\ [][NextPage]_vars

-----------------------------------------------------------------------------
(* Properties of convert, parse_junit_xml and generate_html *)

\* parse_junit_xml has returned suite_data
Parsed == test_data # NoData

\* generate_html has built html_content
Rendered == html_content # <<>>

\* the input file can be read, is well-formed and holds a testsuite element
Readable == fs_input = "file" /\ doc.wf /\ doc.suites # <<>>

\* the items of html_content at a place, in document order
Places(content, place) == SelectSeq(content, LAMBDA it : it.place = place)

\* the places where a text taken from the input document, or the source-file
\* label, is embedded
TextPlaces ==
    {"title", "subtitle", "source-path", "test-name", "full-name", "class",
     "skipped-reason", "error-message", "failure-message", "system-out"}

Entities == {E_amp, E_lt, E_gt, E_quot, E_apos}

\* a text in which no markup character is left as it is
IsEscaped(t) ==
    \A k \in 1..Len(t) :
        /\ t[k] \notin {"<", ">", "\"", "'"}
        /\ t[k] = "&" => \E e \in Entities : LitAt(t, k, e)

\* C1: in the document generate_html produces, every text field that comes from
\* the input document (suite name, case name, cleaned case name, class name,
\* skip/error/failure message, system output) and the source-file label is
\* escaped at every place where it is embedded, the <title> and the header
\* subtitle included.
C1_EveryFieldEscaped ==
    \A i \in 1..Len(html_content) :
        html_content[i].place \in TextPlaces => IsEscaped(html_content[i].text)

\* C2: every testcase element gets exactly one status of passed, failed, error,
\* skipped, with the precedence skipped > error > failure > passed over the
\* markers that are present.
C2_StatusPrecedence ==
    Parsed =>
        /\ Len(test_data.test_cases) = Len(doc.suites[1].cases)
        /\ \A k \in 1..Len(test_data.test_cases) :
             LET el == doc.suites[1].cases[k]
                 st == test_data.test_cases[k].status
             IN  /\ st \in {"passed", "failed", "error", "skipped"}
                 /\ el.skipped # NoChild => st = "skipped"
                 /\ el.skipped = NoChild /\ el.error # NoChild => st = "error"
                 /\ el.skipped = NoChild /\ el.error = NoChild /\ el.failure # NoChild
                      => st = "failed"
                 /\ el.skipped = NoChild /\ el.error = NoChild /\ el.failure = NoChild
                      => st = "passed"

\* a parsed case that carries all three markers, and one with error and failure
C2_Witness ==
    /\ Parsed
    /\ \E k \in 1..Len(test_data.test_cases) :
         LET el == doc.suites[1].cases[k]
         IN  /\ el.skipped # NoChild /\ el.error # NoChild /\ el.failure # NoChild
             /\ test_data.test_cases[k].status = "skipped"

\* C3: a conversion is all-or-nothing: when convert has ended, either it
\* succeeded and the output file holds the complete document, or it failed and
\* no partial or corrupt output file is at the output path.
C3_AllOrNothing ==
    entry = "convert" =>
        /\ pc = "done" => disk.exists /\ disk.content = html_content
        /\ pc = "failed" => ~disk.exists \/ disk.content = OldReport

\* C4: when the input path does not exist, convert fails with FileNotFoundError
\* before the parse step and before the output path is opened: neither runs,
\* and no output file is made.
C4_MissingInput ==
    entry = "convert" /\ fs_input = "missing" /\ pc # "start" =>
        /\ pc = "failed"
        /\ exc.type = "FileNotFoundError"
        /\ ran = {"exists"}
        /\ test_data = NoData
        /\ disk.opened = None
        /\ ~disk.exists \/ disk.content = OldReport

C4_Witness == entry = "convert" /\ fs_input = "missing" /\ pc = "failed"

\* a numeric attribute that is present and that int() or float() refuses
MalformedInt(attr) == attr # None /\ ~IsIntLiteral(attr)
MalformedFloat(attr) == attr # None /\ ~IsFloatLiteral(attr)

MalformedSuite(el) ==
    \/ \E a \in {el.tests, el.disabled, el.errors, el.failures, el.skipped} :
          MalformedInt(a)
    \/ MalformedFloat(el.time)
    \/ \E k \in 1..Len(el.cases) : MalformedFloat(el.cases[k].time)

\* C5: a numeric attribute of the suite (tests, disabled, errors, failures,
\* skipped, time) or of a case (time) that is absent is parsed as the default 0
\* and parsing goes on; one that is present and is no number makes
\* parse_junit_xml raise and return no record: it is never replaced by the
\* default.
C5_AbsentDefaultsMalformedRaises ==
    "parse" \in ran /\ Readable =>
        LET el == doc.suites[1]
        IN  IF MalformedSuite(el)
            THEN /\ pc = "failed"
                 /\ exc.type = "ValueError"
                 /\ test_data = NoData
                 /\ ret = None
            ELSE /\ Parsed
                 /\ el.tests = None => test_data.tests = 0
                 /\ el.disabled = None => test_data.disabled = 0
                 /\ el.errors = None => test_data.errors = 0
                 /\ el.failures = None => test_data.failures = 0
                 /\ el.skipped = None => test_data.skipped = 0
                 /\ el.time = None => test_data.time = Fin(0)
                 /\ \A k \in 1..Len(el.cases) :
                      el.cases[k].time = None => test_data.test_cases[k].time = Fin(0)

\* a document whose tests attribute is no number and whose disabled attribute is
\* absent has been refused
C5_Witness ==
    /\ "parse" \in ran /\ Readable
    /\ MalformedInt(doc.suites[1].tests)
    /\ doc.suites[1].disabled = None
    /\ pc = "failed"

\* the number an attribute counter stands for
Counter(attr) == IF attr = None THEN 0 ELSE int(attr).val

\* C6: for every parsed document the passed count is tests - errors - failures
\* - skipped of the suite's attribute counters, not of the case list, and is not
\* clamped; the Passed tile and the printed summary show this same value.
C6_PassedDerived ==
    Parsed =>
        LET el == doc.suites[1]
            expected == Counter(el.tests) - Counter(el.errors) - Counter(el.failures)
                          - Counter(el.skipped)
        IN  /\ test_data.passed = expected
            /\ Rendered =>
                 /\ Len(Places(html_content, "tests-passed")) = 1
                 /\ Places(html_content, "tests-passed")[1].num = expected
            /\ pc = "done" /\ entry = "convert" =>
                 /\ stdout[Len(stdout)].msg = "Summary"
                 /\ stdout[Len(stdout)].nums[2] = expected

\* a finished conversion of inconsistent counters: a negative passed count next
\* to one case that passed
C6_Witness ==
    /\ pc = "done" /\ entry = "convert"
    /\ test_data.passed < 0
    /\ Len(test_data.test_cases) = 1
    /\ test_data.test_cases[1].status = "passed"

\* C7: the report holds exactly one case block per testcase element of the
\* suite, in document order, numbered 1..n; the count in the Test Cases header
\* is n, whatever the tests attribute says.
C7_OneBlockPerCase ==
    Rendered =>
        LET cases == doc.suites[1].cases
            heads == Places(html_content, "test-name")
            names == Places(html_content, "full-name")
            count == Places(html_content, "test-cases-count")
        IN  /\ Len(heads) = Len(cases)
            /\ Len(names) = Len(cases)
            /\ \A k \in 1..Len(cases) :
                 /\ heads[k].num = k
                 /\ names[k].text = escape_html(get(cases[k].name, S_Unknown))
            /\ Len(count) = 1
            /\ count[1].num = Len(cases)

\* a finished report of two different cases of a suite whose tests attribute is
\* not 2
C7_Witness ==
    /\ pc = "done"
    /\ Len(doc.suites[1].cases) = 2
    /\ doc.suites[1].cases[1].name # doc.suites[1].cases[2].name
    /\ test_data.tests # 2

\* C8: the output path is (a) without output argument the input's directory
\* joined with the input's base name without extension plus "_report.html",
\* (b) for an output argument without directory the input's directory joined
\* with that name, (c) an output argument with a directory as it is; and the
\* value returned is the path that was written.
C8_OutputPath ==
    output_file # None =>
        /\ output_arg = None =>
             /\ dirname(output_file) = dirname(input_file)
             /\ basename(output_file) = splitext(basename(input_file))[1] \o S_report_html
        /\ output_arg # None /\ Find(output_arg, 1, "/") = 0 =>
             /\ dirname(output_file) = dirname(input_file)
             /\ basename(output_file) = output_arg
        /\ output_arg # None /\ Find(output_arg, 1, "/") # 0 =>
             output_file = output_arg
        /\ input_file = P_reports_x_xml =>
             /\ output_arg = None => output_file = P_reports_x_report_html
             /\ output_arg = P_out_html => output_file = P_reports_out_html
             /\ output_arg = P_tmp_out_html => output_file = P_tmp_out_html
        /\ pc = "done" =>
             /\ ret = output_file
             /\ disk.opened = ret
             /\ disk.exists

\* reports/x.xml converted with the output argument out.html
C8_Witness ==
    /\ pc = "done"
    /\ input_file = P_reports_x_xml
    /\ output_arg = P_out_html
    /\ ret = P_reports_out_html

IOFailureTypes == {"OSError", "FileNotFoundError", "IsADirectoryError", "PermissionError"}

\* C9: parse_junit_xml reports distinguishable error kinds: an I/O failure when
\* the path does not exist or cannot be opened, a malformed-document failure
\* when the markup is not well-formed or holds no testsuite; an I/O failure is
\* never reported as a malformed-document failure.
C9_ErrorKinds ==
    entry = "parse" /\ pc = "failed" =>
        /\ fs_input # "file" => exc.type \in IOFailureTypes
        /\ fs_input = "file" /\ (~doc.wf \/ doc.suites = <<>>) => exc.type = "ValueError"

-----------------------------------------------------------------------------
(* Properties of clean_test_name *)

\* C10: clean_test_name is total: for every string, the empty one included, and
\* for an absent name it returns, without failing, a string that is not empty
\* and has at most 60 characters; a result of the rewrites longer than 60
\* characters is cut to its first 57 characters plus "...", an empty or absent
\* name gives "Unknown Test", and a name the rewrites reduce to the empty string
\* gives "Test Case".
C10_CleanTotal ==
    /\ call_pc \in {"entry", "rewrite", "finish", "returned"}
    /\ call_pc \in {"rewrite", "finish"} => call_tmp # NoCall /\ call_ret = NoCall
    /\ call_pc = "returned" =>
         /\ call_ret = clean_test_name(call_arg)
         /\ call_ret # <<>>
         /\ Len(call_ret) <= 60
         /\ call_arg \in {None, <<>>} <=> call_tmp = NoCall
         /\ call_arg \in {None, <<>>} => call_ret = S_Unknown_Test
         /\ call_tmp # NoCall /\ Len(call_tmp) > 60 =>
              call_ret = SubSeq(call_tmp, 1, 57) \o <<".", ".", ".">>
         /\ call_tmp # NoCall /\ Len(call_tmp) \in 1..60 => call_ret = call_tmp
         /\ call_tmp = <<>> => call_ret = S_Test_Case

\* a name that is still longer than 60 characters after the rewrites has been
\* returned
C10_Witness ==
    /\ call_pc = "returned"
    /\ call_tmp # NoCall
    /\ Len(call_tmp) > 60
    /\ call_tmp # call_arg

-----------------------------------------------------------------------------
(* Properties of escape_html *)

\* the character an entity stands for
EntityChar(e) ==
    CASE e = E_amp -> "&" [] e = E_lt -> "<" [] e = E_gt -> ">"
      [] e = E_quot -> "\"" [] e = E_apos -> "'"

\* the text a browser shows for an escaped text: every entity of the escaper
\* read as its character, from left to right
RECURSIVE Decoded(_, _)
Decoded(t, p) ==
    IF p > Len(t) THEN <<>>
    ELSE IF \E e \in Entities : LitAt(t, p, e)
    THEN <<EntityChar(CHOOSE e \in Entities : LitAt(t, p, e))>>
           \o Decoded(t, p + Len(CHOOSE e \in Entities : LitAt(t, p, e)))
    ELSE <<t[p]>> \o Decoded(t, p + 1)

\* C11: for every string the output of escape_html holds no '<', '>', '"' or
\* "'", and every '&' of it starts one of the five entities; '&' is replaced
\* first, so no entity made for another character is escaped again: the output
\* reads back as the input; an empty or absent input gives the empty string.
C11_EscapeSafe ==
    entry = "escape" /\ call_pc = "returned" =>
        /\ IsEscaped(call_ret)
        /\ call_arg \in {None, <<>>} => call_ret = <<>>
        /\ call_arg # None => Decoded(call_ret, 1) = call_arg

\* a text that holds '&', one of the other four characters, and an entity of
\* its own has been escaped
C11_Witness ==
    /\ entry = "escape" /\ call_pc = "returned"
    /\ call_arg # None
    /\ \E i, j, k \in 1..Len(call_arg) :
         /\ call_arg[i] = "<"
         /\ call_arg[j] = "&" /\ ~LitAt(call_arg, j, E_amp)
         /\ LitAt(call_arg, k, E_amp)

-----------------------------------------------------------------------------
(* Properties of format_time *)

\* a float below 1 s, from 1 s up to 60 s, of 60 s or more (NaN is none of them)
BelowOne(x) == (x.k = "fin" /\ x.ms < 1000) \/ (x.k = "inf" /\ x.ms < 0)
BelowSixty(x) == x.k = "fin" /\ x.ms >= 1000 /\ x.ms < 60000
SixtyOrMore(x) == (x.k = "fin" /\ x.ms >= 60000) \/ (x.k = "inf" /\ x.ms > 0)

\* the unit form of a finite duration, its whole minutes and remaining seconds,
\* and what is printed for the durations the specification lists
FiniteForm(x, r) ==
    /\ x.ms < 1000 => r.form = "ms" /\ r.value = x.ms * 1000
    /\ x.ms >= 1000 /\ x.ms < 60000 => r.form = "s" /\ r.value = x.ms
    /\ x.ms >= 60000 =>
         /\ r.form = "min"
         /\ r.minutes * 60000 + r.value = x.ms
         /\ r.value >= 0 /\ r.value < 60000
    /\ x.ms \in {500, 999} => r.form = "ms"
    /\ x.ms \in {1000, 59990} => r.form = "s"
    /\ x.ms = 60000 => r.form = "min" /\ r.minutes = 1 /\ Shown(r) = {0}
    /\ x.ms = 125400 => r.form = "min" /\ r.minutes = 2 /\ Shown(r) = {54}

\* C12: format_time chooses the unit by the thresholds 1 s and 60 s: every
\* duration below 1 s is returned in the milliseconds form, every duration from
\* 1 s up to 60 s in the seconds form, every duration of 60 s or more in the
\* minutes form with the whole minutes and the remaining seconds below 60;
\* 0.5 and 0.999 give milliseconds, 1.0 and 59.99 seconds, 60.0 minutes, and
\* 125.4 gives "2m 5.4s".
C12_UnitByThreshold ==
    entry = "time" /\ call_pc # "entry" /\ call_arg.k # "nan" =>
        /\ call_pc = "returned"
        /\ BelowOne(call_arg) => call_ret.form \in {"ms", "ms-inf"}
        /\ BelowSixty(call_arg) => call_ret.form = "s"
        /\ SixtyOrMore(call_arg) => call_ret.form = "min" /\ call_ret.value < 60000
        /\ call_arg.k = "fin" => FiniteForm(call_arg, call_ret)

\* every finite duration is formatted as C12 says
FiniteDurationsFormatted ==
    entry = "time" /\ call_pc # "entry" /\ call_arg.k = "fin" =>
        call_pc = "returned" /\ FiniteForm(call_arg, call_ret)

\* 125.4 s has been formatted
FiniteDurationsWitness ==
    entry = "time" /\ call_pc = "returned" /\ call_arg = Fin(125400)

\* remaining seconds below 60 can be printed as 60.0
ShownBelowSixty ==
    entry = "time" /\ call_pc = "returned" /\ call_ret.form = "min" =>
        \A t \in Shown(call_ret) : t < 600

-----------------------------------------------------------------------------
(* Properties of the messages of a case *)

\* the message a marker gives: its text, or the fallback when it has none
MarkerMessage(marker, fallback) ==
    IF marker \in {None, <<>>} THEN fallback ELSE marker

\* the message of the marker that decides the status of a testcase element
StatusMessage(el) ==
    IF el.skipped # NoChild THEN MarkerMessage(el.skipped, S_Skipped)
    ELSE IF el.error # NoChild THEN MarkerMessage(el.error, S_Error_occurred)
    ELSE IF el.failure # NoChild THEN MarkerMessage(el.failure, S_Test_failed)
    ELSE <<>>

\* the place of the note that shows the message of a status
NotePlace(status) ==
    CASE status = "skipped" -> "skipped-reason"
      [] status = "error" -> "error-message"
      [] status = "failed" -> "failure-message"
      [] OTHER -> "none"

NotePlaces == {"skipped-reason", "error-message", "failure-message"}

\* C13: for every parsed case the message recorded is that of the marker that
\* decided the status and of no other: the marker's text, or "Skipped",
\* "Error occurred", "Test failed" when the marker has no text; the message
\* fields of the other markers stay empty, a passed case has no message, and
\* the report shows, per case that did not pass, this one message.
C13_MessageOfStatus ==
    Parsed =>
        LET cases == doc.suites[1].cases
            parsed == test_data.test_cases
            noted == SelectSeq([k \in 1..Len(parsed) |-> k],
                               LAMBDA k : parsed[k].status # "passed")
            notes == SelectSeq(html_content, LAMBDA it : it.place \in NotePlaces)
        IN  /\ \A k \in 1..Len(parsed) :
                 /\ parsed[k].skipped =
                      IF parsed[k].status = "skipped" THEN StatusMessage(cases[k]) ELSE <<>>
                 /\ parsed[k].error =
                      IF parsed[k].status = "error" THEN StatusMessage(cases[k]) ELSE <<>>
                 /\ parsed[k].failure =
                      IF parsed[k].status = "failed" THEN StatusMessage(cases[k]) ELSE <<>>
                 /\ parsed[k].status # "passed" => StatusMessage(cases[k]) # <<>>
            /\ Rendered =>
                 /\ Len(notes) = Len(noted)
                 /\ \A j \in 1..Len(notes) :
                      /\ notes[j].place = NotePlace(parsed[noted[j]].status)
                      /\ notes[j].text = escape_html(StatusMessage(cases[noted[j]]))

\* a report of a case whose skipped marker has no text and whose error and
\* failure markers have one
C13_Witness ==
    /\ pc = "done"
    /\ \E k \in 1..Len(doc.suites[1].cases) :
         /\ doc.suites[1].cases[k].skipped = None
         /\ doc.suites[1].cases[k].error \notin {NoChild, None}
         /\ doc.suites[1].cases[k].failure \notin {NoChild, None}
         /\ test_data.test_cases[k].skipped = S_Skipped

-----------------------------------------------------------------------------
(* Properties of the script of the report *)

AllExpanded(blocks) == \A b \in 1..Len(blocks) : blocks[b].details.expanded
AllCollapsed(blocks) == \A b \in 1..Len(blocks) : ~blocks[b].details.expanded

\* the last event was an activation of Expand All, of Collapse All
ExpandAllActivated ==
    \/ event.type = "expand-all-click"
    \/ event.type = "keydown" /\ (event.ctrlKey \/ event.metaKey) /\ event.key = "a"
CollapseAllActivated ==
    \/ event.type = "collapse-all-click"
    \/ event.type = "keydown" /\ (event.ctrlKey \/ event.metaKey) /\ event.key = "d"

\* C14: in the script of the report all detail regions are collapsed after the
\* page has loaded; whatever the blocks' states, Expand All (button or
\* Ctrl/Cmd+A) leaves every block expanded and Collapse All (button or
\* Ctrl/Cmd+D) leaves every block collapsed; a click on the header of a block
\* flips that block and leaves every other block as it was.
C14_ExpandCollapse ==
    entry = "page" =>
        /\ event.type \in {"none", "load"} => AllCollapsed(testCases)
        /\ ExpandAllActivated => AllExpanded(testCases)
        /\ CollapseAllActivated => AllCollapsed(testCases)
        /\ event.type # "none" => Len(testCases) = Len(before)
        /\ event.type = "header-click" =>
             \A b \in 1..Len(testCases) :
                 IF b = event.index
                 THEN testCases[b].details.expanded = ~before[b].details.expanded
                 ELSE testCases[b] = before[b]

\* Cmd+A has found one block expanded and another collapsed
C14_Witness ==
    /\ entry = "page"
    /\ event.type = "keydown" /\ event.metaKey /\ ~event.ctrlKey /\ event.key = "a"
    /\ \E b, c \in 1..Len(before) :
         before[b].details.expanded /\ ~before[c].details.expanded
    /\ AllExpanded(testCases)

\* C15: in every state reached from page load by header clicks, Expand All and
\* Collapse All, the toggle button of a block carries 'expanded', and shows the
\* expanded glyph, exactly when the detail region of the block carries
\* 'expanded'.
C15_ButtonAgreesWithDetails ==
    entry = "page" =>
        \A b \in 1..Len(testCases) :
            /\ testCases[b].toggleBtn.expanded = testCases[b].details.expanded
            /\ testCases[b].toggleBtn.textContent =
                 IF testCases[b].details.expanded THEN Glyph_expanded ELSE Glyph_collapsed

\* a header click has collapsed one block next to a block that is expanded
C15_Witness ==
    /\ entry = "page"
    /\ event.type = "header-click"
    /\ before[event.index].details.expanded
    /\ \E c \in 1..Len(testCases) : testCases[c].details.expanded

====
